---- MODULE Spec2Model ----
(***************************************************************************)
(* Historical-bar retrieval of sc_data_handler: the single-window fetch    *)
(* retrieve_historical_bars, the chunked parallel retrieval                *)
(* recurssive_call_retrieve_historical_bars (planning loop, thread pool,   *)
(* as_completed collection, sort and cut) and the two request handlers     *)
(* get_data / get_indicator_data that call into them.                      *)
(*                                                                         *)
(* Time.  A datetime is an integer count of ticks, TicksPerDay ticks to a  *)
(* calendar day, so that a datetime carries a time of day as Python's      *)
(* does; timedelta(days=k) is k * TicksPerDay ticks and strftime           *)
(* ("%Y-%m-%d") is the day number t \div TicksPerDay.                       *)
(***************************************************************************)
EXTENDS Integers, Sequences, FiniteSets, TLC

\* ------------------------------------------------------------- bounds
\* Resolution of the time of day carried by a datetime.
TicksPerDay == 2
\* The datetime (in ticks) around which requested end dates are drawn.
Epoch == 1000000
\* Requested spans of the planning specification reach this many provider
\* windows of the timeframe.
MaxSpanWindows == 19
\* The cut "last 10000 points" of the source, scaled down so that a handful
\* of bars exceeds it.
MaxBars == 2
\* Hours (provider-local) at which the toy calendar leaves daylight time.
DstEnd == 2

\* ---------------------------------------------------------- constants
six_hour_thirty_mins == 390
twenty_four_hours == 1440
PointCap == 20000
max_workers == 10

\* Datetimes are taken far from datetime.min and datetime.max: a subtraction
\* that would leave Python's range (OverflowError) is outside the model.
timedelta(days) == days * TicksPerDay

\* strftime("%Y-%m-%d"): the calendar day of a datetime.
strftime_date(t) == t \div TicksPerDay

minute_to_count_in_market_day(min_, max_range) ==
    (max_range * six_hour_thirty_mins) \div min_

minute_to_count_in_day(min_, max_range) ==
    (max_range * twenty_four_hours) \div min_

\* One catalog entry.  The point counts of 1week, 1month and 1year are the
\* quotients 14600/7, 14600/30 and 14600/365: a count is kept as a numerator
\* over the entry's denominator den.
CatalogEntry(days, mh, pts, den) ==
    [max_range_days |-> days, num_points_market_hours_only |-> mh,
     num_points |-> pts, den |-> den]

IntradayEntry(min_, days) ==
    CatalogEntry(days, minute_to_count_in_market_day(min_, days),
                 minute_to_count_in_day(min_, days), 1)

interval_to_max_days ==
    ("1min"   :> IntradayEntry(1, 3))
 @@ ("5min"   :> IntradayEntry(5, 10))
 @@ ("15min"  :> IntradayEntry(15, 45))
 @@ ("30min"  :> IntradayEntry(30, 30))
 @@ ("1hour"  :> IntradayEntry(60, 90))
 @@ ("4hour"  :> IntradayEntry(240, 180))
 @@ ("1day"   :> CatalogEntry(1825, 1825, 1825, 1))
 @@ ("1week"  :> CatalogEntry(14600, 14600, 14600, 7))
 @@ ("1month" :> CatalogEntry(14600, 14600, 14600, 30))
 @@ ("1year"  :> CatalogEntry(14600, 14600, 14600, 365))

timeframes ==
    {"1min", "5min", "15min", "30min", "45min", "1hour", "4hour", "1day",
     "1week", "1month", "1year"}

\* interval_to_max_days.get(tframe, {}).get("max_range_days", 0)
max_days_of(tf) ==
    IF tf \in DOMAIN interval_to_max_days
    THEN interval_to_max_days[tf].max_range_days ELSE 0

\* The numerator of total_num_points for the asset type (lines 338-345).
total_num_points_of(tf, ty) ==
    IF tf \notin DOMAIN interval_to_max_days THEN 0
    ELSE IF ty = "stock"
         THEN interval_to_max_days[tf].num_points_market_hours_only
         ELSE interval_to_max_days[tf].num_points

points_den(tf) ==
    IF tf \in DOMAIN interval_to_max_days THEN interval_to_max_days[tf].den ELSE 1

AssetTypes == {"stock", "crypto"}

\* ------------------------------------------------------- the provider
\* A bar as the provider sends it: the date is a provider-local timestamp
\* (hours of the toy calendar), the five values are numbers.
Bar(d, v) ==
    [date |-> d, open |-> v, high |-> v, low |-> v, close |-> v, volume |-> v]

\* The bars the provider may send.  Two of them share a timestamp and
\* differ in their values.
UpstreamBars == {Bar(0, 1), Bar(0, 2), Bar(1, 1)}

\* The provider answers in descending order of date (line 256), with up to
\* one bar more than the cut keeps.  Nothing ties the answer to the window
\* asked for: the code does not check it.
DescendingSeqs ==
    {s \in UNION {[1..n -> UpstreamBars] : n \in 0..(MaxBars + 1)} :
        \A i \in 1..Len(s), j \in 1..Len(s) : i < j => s[i].date >= s[j].date}

\* A JSON body: an array of bars (intraday), or an object whose key
\* "historical" holds the array (daily); an object without the key is the
\* object with no bars, as data.get("historical", []) reads it.
Payloads ==
    {[kind |-> "list", bars |-> s] : s \in DescendingSeqs}
    \cup {[kind |-> "dict", bars |-> s] : s \in {t \in DescendingSeqs : Len(t) <= 1}}

\* ------------------------------------------------ retrieve_historical_bars
\* est.localize(strptime(date)).astimezone(utc): a local time before the end
\* of daylight time is 4 hours behind UTC, a later one 5; the repeated hour
\* is read as standard time (localize's is_dst=False).
to_utc(d) == IF d < DstEnd - 1 THEN d + 4 ELSE d + 5

RECURSIVE Reverse(_)
Reverse(s) == IF s = <<>> THEN <<>> ELSE Append(Reverse(Tail(s)), Head(s))

\* s[-n:] for n > 0
LastN(s, n) == IF Len(s) <= n THEN s ELSE SubSeq(s, Len(s) - n + 1, Len(s))

ListResult(bars) == [form |-> "list", bars |-> bars]

\* The column form (lines 267-283): six parallel arrays, the dates as sent.
column_format(data) ==
    [form   |-> "columns",
     open   |-> [i \in 1..Len(data) |-> data[i].open],
     high   |-> [i \in 1..Len(data) |-> data[i].high],
     low    |-> [i \in 1..Len(data) |-> data[i].low],
     close  |-> [i \in 1..Len(data) |-> data[i].close],
     volume |-> [i \in 1..Len(data) |-> data[i].volume],
     date   |-> [i \in 1..Len(data) |-> data[i].date]]

\* The list form (lines 285-301): the last MaxBars bars, timestamps in UTC.
utc_bars(data) ==
    LET cut == LastN(data, MaxBars)
    IN  [i \in 1..Len(cut) |->
            [datetime |-> to_utc(cut[i].date), open |-> cut[i].open,
             high |-> cut[i].high, low |-> cut[i].low,
             close |-> cut[i].close, volume |-> cut[i].volume]]

\* Lines 258-303: what retrieve_historical_bars returns for a JSON body.
bars_of(json, fmt) ==
    LET data == json.bars
    IN  IF data = <<>> THEN ListResult(<<>>)
        ELSE IF fmt THEN column_format(Reverse(data))
        ELSE ListResult(utc_bars(Reverse(data)))

\* The gate without its timeframe check.
rhb_gate_any_timeframe(tf, ty) ==
    IF ty \notin AssetTypes THEN "InvalidType" ELSE ""

\* Lines 233-238: the exception the validity gate raises, "" for none.
rhb_gate(tf, ty) ==
    IF tf \notin timeframes THEN "InvalidTimeframe"
    ELSE IF ty \notin AssetTypes THEN "InvalidType"
    ELSE ""

\* Lines 330-336: the gate of the chunked retrieval.
recur_gate(tf, ty) ==
    IF max_days_of(tf) = 0 THEN "InvalidTimeframe"
    ELSE IF ty \notin AssetTypes THEN "InvalidType"
    ELSE ""

\* ------------------------------------------------------------ planning
\* The window start a whole max_days before the end.
new_start_date_max_days_back(end, max_days) == end - timedelta(max_days)

\* Line 356
new_start_date(end, max_days) == end - timedelta(max_days - 1)

\* The cursor left on the window's first day.
next_end_date_same_day(new_start) == new_start

\* Line 358
next_end_date(new_start) == new_start - timedelta(1)

\* The loop with a strict comparison of the dates.
loop_continues_strict(end, start, total, den) ==
    end > start /\ total < PointCap * den

\* The loop without the cap on the expected points.
loop_continues_uncapped(end, start, total, den) == end >= start

\* Line 355, the count compared over the catalog entry's denominator.
loop_continues(end, start, total, den) ==
    end >= start /\ total < PointCap * den

\* --------------------------------------------------------------- merge
\* What data.extend(f.result()) adds: the bars of a list, the keys of a dict.
ColumnKeys == <<"open", "high", "low", "close", "volume", "date">>

extended_with(value) ==
    IF value.form = "list" THEN value.bars
    ELSE [i \in 1..Len(ColumnKeys) |-> [key |-> ColumnKeys[i]]]

\* len(f.result())
len_of(value) == IF value.form = "list" THEN Len(value.bars) ELSE Len(ColumnKeys)

\* x["datetime"] raises TypeError when x is a string (a key of a dict).
sort_key_fails(data) == \E i \in 1..Len(data) : "datetime" \notin DOMAIN data[i]

\* No sort: the bars stay in the order they arrived in.
arrival_order(s) == s

\* list.sort is stable: an element goes behind those of equal key before it.
insert_sorted(sorted, x) ==
    LET k == Cardinality({i \in 1..Len(sorted) : sorted[i].datetime <= x.datetime})
    IN  SubSeq(sorted, 1, k) \o <<x>> \o SubSeq(sorted, k + 1, Len(sorted))

RECURSIVE sort_by_datetime(_)
sort_by_datetime(s) ==
    IF s = <<>> THEN <<>>
    ELSE insert_sorted(sort_by_datetime(SubSeq(s, 1, Len(s) - 1)), s[Len(s)])

\* The cut taken from the front of the sorted bars.
merged_first(data) ==
    SubSeq(sort_by_datetime(data), 1,
           IF Len(data) <= MaxBars THEN Len(data) ELSE MaxBars)

\* Lines 383-384
merged(data) == LastN(sort_by_datetime(data), MaxBars)

\* --------------------------------------------------------------- state
VARIABLES
    op,                   \* the operation called
    tframe, type_,        \* its arguments
    format_taLib,
    start_date,           \* the requested start
    to_date,              \* the requested end
    date_args,            \* what start_date and end_date are: "str", "tuple", "datetime"
    pc,                   \* where the calling thread is
    end_date,             \* the planning loop's cursor (the rebound parameter)
    total_points,         \* numerator of the running total of expected points
    start_end_date_pairs, \* the planned windows, <<new_start, end>>
    futures,              \* one per submitted fetch
    data, num_datas,      \* collected so far
    calls,                \* the requests get_jsonparsed_data was given
    raised,               \* the exception the caller gets, "" for none
    result                \* the value the caller gets

vars ==
    <<op, tframe, type_, format_taLib, start_date, to_date, date_args, pc,
      end_date, total_points, start_end_date_pairs, futures, data, num_datas,
      calls, raised, result>>

request == <<op, tframe, type_, start_date, to_date>>
planning == <<end_date, total_points, start_end_date_pairs>>
collection == <<futures, data, num_datas>>

NoResult == [form |-> "none"]
NewFuture == [state |-> "pending", exc |-> "", value |-> NoResult, collected |-> FALSE]

Handlers == {"get_data", "get_indicator_data"}
Operations ==
    Handlers \cup {"retrieve_historical_bars", "recurssive_call_retrieve_historical_bars"}

EntryPc(o) ==
    IF o \in Handlers THEN "handler"
    ELSE IF o = "retrieve_historical_bars" THEN "rhb"
    ELSE "recur"

Start(o, tf, ty, fmt, start, end) ==
    /\ op = o /\ tframe = tf /\ type_ = ty
    /\ format_taLib = fmt
    /\ start_date = start /\ to_date = end /\ end_date = end
    /\ date_args = IF o \in Handlers THEN "str" ELSE "datetime"
    /\ pc = EntryPc(o)
    /\ total_points = 0
    /\ start_end_date_pairs = <<>>
    /\ futures = <<>>
    /\ data = <<>> /\ num_datas = <<>>
    /\ calls = <<>>
    /\ raised = ""
    /\ result = NoResult

\* The requests of the retrieval specification: a catalog timeframe with the
\* shortest windows, the daily one, one known to the single fetch only and
\* one known to neither; ranges of no, one and two windows of 1min.
RequestTimeframes == {"1min", "1day", "45min", "2min"}
RequestTypes == AssetTypes \cup {"etf"}
RequestSpans == {0 - timedelta(1), 0, timedelta(3)}

Init ==
    \E o \in Operations, tf \in RequestTimeframes, ty \in RequestTypes,
       fmt \in BOOLEAN, span \in RequestSpans :
        /\ o \in Handlers => fmt = FALSE
        /\ Start(o, tf, ty, fmt, Epoch - span, Epoch)

\* The requests of the planning specification: every timeframe name, ends at
\* two times of day, spans around each multiple of the timeframe's window.
PlanTimeframes == timeframes \cup DOMAIN interval_to_max_days \cup {"2min"}
PlanSpans(tf) ==
    {timedelta(a * max_days_of(tf)) + b :
        a \in 0..MaxSpanWindows, b \in (0 - TicksPerDay)..TicksPerDay}

InitPlan ==
    \E tf \in PlanTimeframes, ty \in RequestTypes, e \in {Epoch, Epoch + 1} :
        \E span \in PlanSpans(tf) :
            Start("recurssive_call_retrieve_historical_bars", tf, ty, FALSE,
                  e - span, e)

\* ------------------------------------------------------------- handlers
\* app.py 48-52: parse_date_string returns the pair (datetime, current time)
\* (fmp_data_handler.py line 41) and the pair is what the handler passes on.
parse_date_string(kind) == IF kind = "str" THEN "tuple" ELSE kind

get_data ==
    /\ pc = "handler" /\ op = "get_data"
    /\ date_args' = parse_date_string(date_args)
    /\ format_taLib' = FALSE
    /\ pc' = "rhb"
    /\ UNCHANGED <<request, planning, collection, calls, raised, result>>

\* app.py 64-86
get_indicator_data ==
    /\ pc = "handler" /\ op = "get_indicator_data"
    /\ date_args' = parse_date_string(date_args)
    /\ format_taLib' = TRUE
    /\ pc' = "rhb"
    /\ UNCHANGED <<request, planning, collection, calls, raised, result>>

\* The request of one fetch: from and to as calendar days (lines 240-245).
url_params(start, end) == [from |-> strftime_date(start), to |-> strftime_date(end)]

\* The exception retrieve_historical_bars raises before it fetches, "" for
\* none: the gate, then strftime on an argument that is no datetime.
rhb_raises(tf, ty, kind) ==
    IF rhb_gate(tf, ty) # "" THEN rhb_gate(tf, ty)
    ELSE IF kind # "datetime" THEN "AttributeError"
    ELSE ""

\* retrieve_historical_bars called by the caller's own thread.
retrieve_historical_bars ==
    /\ pc = "rhb"
    /\ pc' = "done"
    /\ UNCHANGED <<request, format_taLib, date_args, planning, collection>>
    /\ IF rhb_raises(tframe, type_, date_args) # ""
       THEN /\ raised' = rhb_raises(tframe, type_, date_args)
            /\ UNCHANGED <<calls, result>>
       ELSE /\ calls' = Append(calls, url_params(start_date, to_date))
            /\ \/ /\ raised' = "UpstreamFetchError"
                  /\ UNCHANGED result
               \/ \E json \in Payloads :
                     /\ result' = bars_of(json, format_taLib)
                     /\ UNCHANGED raised

\* ------------------------------------------------- the chunked retrieval
\* Lines 330-352
recur_validate ==
    /\ pc = "recur"
    /\ IF recur_gate(tframe, type_) # ""
       THEN /\ raised' = recur_gate(tframe, type_)
            /\ pc' = "done"
       ELSE /\ pc' = "plan"
            /\ UNCHANGED raised
    /\ UNCHANGED <<request, format_taLib, date_args, planning, collection, calls, result>>

\* Lines 355-359: one turn of the planning loop.
plan_window ==
    /\ pc = "plan"
    /\ loop_continues(end_date, start_date, total_points, points_den(tframe))
    /\ LET new_start == new_start_date(end_date, max_days_of(tframe))
       IN  /\ start_end_date_pairs' = Append(start_end_date_pairs, <<new_start, end_date>>)
           /\ end_date' = next_end_date(new_start)
    /\ total_points' = total_points + total_num_points_of(tframe, type_)
    /\ UNCHANGED <<request, format_taLib, date_args, pc, collection, calls, raised, result>>

\* Lines 362-376: the loop is left and one fetch per window is submitted.
submit ==
    /\ pc = "plan"
    /\ ~loop_continues(end_date, start_date, total_points, points_den(tframe))
    /\ futures' = [i \in 1..Len(start_end_date_pairs) |-> NewFuture]
    /\ pc' = "collect"
    /\ UNCHANGED <<request, format_taLib, date_args, planning, data, num_datas,
                   calls, raised, result>>

Running == {i \in 1..Len(futures) : futures[i].state = "running"}

\* A worker of the pool takes a submitted fetch: retrieve_historical_bars up
\* to its request (lines 233-255).
fetch_start(i) ==
    /\ futures[i].state = "pending"
    /\ Cardinality(Running) < max_workers
    /\ IF rhb_raises(tframe, type_, date_args) # ""
       THEN /\ futures' = [futures EXCEPT ![i].state = "done",
                                          ![i].exc = rhb_raises(tframe, type_, date_args)]
            /\ UNCHANGED calls
       ELSE /\ futures' = [futures EXCEPT ![i].state = "running"]
            /\ calls' = Append(calls, url_params(start_end_date_pairs[i][1],
                                                 start_end_date_pairs[i][2]))
    /\ UNCHANGED <<request, format_taLib, date_args, pc, planning, data, num_datas,
                   raised, result>>

\* The request ends: it failed, or its body is turned into the fetch's value
\* (lines 255-303).
fetch_complete(i) ==
    /\ futures[i].state = "running"
    /\ \/ futures' = [futures EXCEPT ![i].state = "done", ![i].exc = "UpstreamFetchError"]
       \/ \E json \in Payloads :
             futures' = [futures EXCEPT ![i].state = "done",
                                        ![i].value = bars_of(json, format_taLib)]
    /\ UNCHANGED <<request, format_taLib, date_args, pc, planning, data, num_datas,
                   calls, raised, result>>

\* A collection that passes over a failed fetch.
collect_skipping_failures(i) ==
    /\ pc = "collect"
    /\ futures[i].state = "done" /\ ~futures[i].collected
    /\ futures' = [futures EXCEPT ![i].collected = TRUE]
    /\ IF futures[i].exc # ""
       THEN UNCHANGED <<data, num_datas>>
       ELSE /\ data' = data \o extended_with(futures[i].value)
            /\ num_datas' = Append(num_datas, len_of(futures[i].value))
    /\ UNCHANGED <<raised, pc>>
    /\ UNCHANGED <<request, format_taLib, date_args, planning, calls, result>>

\* Lines 377-379: as_completed yields a finished fetch; f.result() raises its
\* exception or gives its value.
collect(i) ==
    /\ pc = "collect"
    /\ futures[i].state = "done" /\ ~futures[i].collected
    /\ futures' = [futures EXCEPT ![i].collected = TRUE]
    /\ IF futures[i].exc # ""
       THEN /\ raised' = futures[i].exc
            /\ pc' = "raising"
            /\ UNCHANGED <<data, num_datas>>
       ELSE /\ data' = data \o extended_with(futures[i].value)
            /\ num_datas' = Append(num_datas, len_of(futures[i].value))
            /\ UNCHANGED <<raised, pc>>
    /\ UNCHANGED <<request, format_taLib, date_args, planning, calls, result>>

AllDone == \A i \in 1..Len(futures) : futures[i].state = "done"
AllCollected == \A i \in 1..Len(futures) : futures[i].collected

\* The with block left without waiting for the fetches still under way.
executor_exit_without_waiting ==
    /\ pc = "raising"
    /\ pc' = "done"
    /\ UNCHANGED <<request, format_taLib, date_args, planning, collection, calls,
                   raised, result>>

\* Line 364: leaving the with block waits for every submitted fetch
\* (shutdown(wait=True)); then the exception reaches the caller.
executor_exit ==
    /\ pc = "raising"
    /\ AllDone
    /\ pc' = "done"
    /\ UNCHANGED <<request, format_taLib, date_args, planning, collection, calls,
                   raised, result>>

\* Lines 380-385: every fetch was collected; sort, cut, return.
merge ==
    /\ pc = "collect"
    /\ AllCollected
    /\ pc' = "done"
    /\ IF sort_key_fails(data)
       THEN /\ raised' = "TypeError"
            /\ UNCHANGED result
       ELSE /\ result' = ListResult(merged(data))
            /\ UNCHANGED raised
    /\ UNCHANGED <<request, format_taLib, date_args, planning, collection, calls>>

Next ==
    \/ get_data
    \/ get_indicator_data
    \/ retrieve_historical_bars
    \/ recur_validate
    \/ plan_window
    \/ submit
    \/ \E i \in 1..Len(futures) : fetch_start(i)
    \/ \E i \in 1..Len(futures) : fetch_complete(i)
    \/ \E i \in 1..Len(futures) : collect(i)
    \/ executor_exit
    \/ merge

Spec == Init /\ [][Next]_vars

NextPlan == recur_validate \/ plan_window \/ submit

SpecPlan == InitPlan /\ [][NextPlan]_vars

\* The calling thread runs on: a step of the planning that can be taken is
\* taken.
SpecPlanFair == SpecPlan /\ WF_vars(NextPlan)

\* ============================================================== claims
Chunked == op = "recurssive_call_retrieve_historical_bars"
Planned == Chunked /\ pc \notin {"recur", "plan"} /\ recur_gate(tframe, type_) = ""
NumWindows == Len(start_end_date_pairs)
WindowStart(i) == start_end_date_pairs[i][1]
WindowEnd(i) == start_end_date_pairs[i][2]
\* The calendar days a window covers, both bounds counted.
WindowDays(i) == strftime_date(WindowEnd(i)) - strftime_date(WindowStart(i)) + 1
NewestFirst ==
    \A i \in 1..NumWindows, j \in 1..NumWindows : i < j => WindowEnd(j) < WindowStart(i)

\* C1: every window the planning loop emits ends no earlier than it starts
\* and covers at most max_range_days calendar days of its timeframe, both
\* bounds counted.
C1_WindowsWithinMaxRange ==
    \A i \in 1..NumWindows :
        /\ WindowEnd(i) >= WindowStart(i)
        /\ WindowDays(i) <= max_days_of(tframe)

C1_Witness ==
    /\ Planned /\ tframe = "5min" /\ NumWindows = 3
    /\ WindowDays(3) = 10

\* A request of 1min bars whose end lies 6 to 7 days after its start.
SevenDays1min ==
    /\ Planned /\ tframe = "1min"
    /\ to_date - start_date >= timedelta(6)
    /\ to_date - start_date <= timedelta(7)

\* C6 as stated: for 1min and a range of 7 days the planner emits exactly 3
\* windows, newest first, covering 3, 3 and 1 days.
C6_ThreeThreeOne ==
    SevenDays1min =>
        /\ NumWindows = 3 /\ NewestFirst
        /\ WindowDays(1) = 3 /\ WindowDays(2) = 3 /\ WindowDays(3) = 1

\* C6 as amended: for 1min and a range of 7 days the planner emits exactly 3
\* windows, newest first, the first ending at the requested end, each
\* covering exactly 3 days: the last one is not cut at the requested start.
C6_ThreeWindowsOfThree ==
    SevenDays1min =>
        /\ NumWindows = 3 /\ NewestFirst
        /\ WindowEnd(1) = to_date
        /\ \A i \in 1..3 : WindowDays(i) = 3
        /\ WindowStart(3) < start_date

C6_Witness ==
    /\ SevenDays1min /\ NumWindows = 3
    /\ strftime_date(start_date) - strftime_date(WindowStart(3)) = 2

\* The window of the timeframe is longer than the whole requested range.
RangeWithinOneWindow ==
    /\ Planned
    /\ to_date >= start_date
    /\ to_date - start_date < timedelta(max_days_of(tframe))

\* C7 as stated: when max_range_days exceeds the requested span, the planner
\* produces exactly one window, equal to [start, end].
C7_OneWindowEqualToRange ==
    RangeWithinOneWindow =>
        /\ NumWindows = 1
        /\ start_end_date_pairs[1] = <<start_date, to_date>>

\* C7 as amended: when max_range_days exceeds the requested span, the planner
\* produces exactly one window; it ends at the requested end and starts
\* max_range_days - 1 days before it, whatever the requested start, so it
\* equals [start, end] only when end - start is max_range_days - 1 days.
C7_OneWindowOfMaxRange ==
    RangeWithinOneWindow =>
        /\ NumWindows = 1
        /\ WindowEnd(1) = to_date
        /\ to_date - WindowStart(1) = (max_days_of(tframe) - 1) * TicksPerDay
        /\ (WindowStart(1) = start_date) <=>
               (to_date - start_date = (max_days_of(tframe) - 1) * TicksPerDay)

C7_Witness ==
    /\ RangeWithinOneWindow /\ NumWindows = 1
    /\ tframe = "1hour"
    /\ WindowStart(1) < start_date

\* The windows that hold calendar day d.
WindowsOfDay(d) ==
    {i \in 1..NumWindows :
        strftime_date(WindowStart(i)) <= d /\ d <= strftime_date(WindowEnd(i))}

\* C9, order and contiguity: the first window ends at the requested end, each
\* later one ends one day before the start of the one before it, and only
\* the last may start at or before the requested start.
C9_Contiguous ==
    Planned =>
        /\ NumWindows > 0 => WindowEnd(1) = to_date
        /\ \A i \in 2..NumWindows : WindowEnd(i) = WindowStart(i - 1) - timedelta(1)
        /\ NewestFirst
        /\ \A i \in 1..(NumWindows - 1) : WindowStart(i) > start_date

\* C9, coverage: when end >= start and planning stopped because the cursor
\* passed the requested start, every calendar day of [start, end] is in exactly one
\* window.
C9_EveryDayCovered ==
    (Planned /\ to_date >= start_date /\ end_date < start_date) =>
        \A d \in strftime_date(start_date)..strftime_date(to_date) :
            Cardinality(WindowsOfDay(d)) = 1

\* C9: the planned windows are newest first, disjoint and contiguous, only
\* the last may reach back past the requested start, and unless the point
\* cap stopped the planning every day of [start, end] is in exactly one
\* window.
C9_WindowsTileTheRange == C9_Contiguous /\ C9_EveryDayCovered

\* ------------------------------------------------- claims on retrieval
\* The timeframe names an operation's gate does not know: the chunked
\* retrieval reads the catalog, the single fetch (and the handlers, which
\* call it) the list of timeframes.
UnsupportedTimeframe ==
    IF Chunked THEN tframe \notin DOMAIN interval_to_max_days
    ELSE tframe \notin timeframes

\* C3: a call with an unsupported timeframe, or with an asset type other
\* than stock and crypto, ends in a validation error, plans no window,
\* submits no fetch and makes no upstream request.
C3_InvalidRequestMakesNoCall ==
    (UnsupportedTimeframe \/ type_ \notin {"stock", "crypto"}) =>
        /\ calls = <<>>
        /\ start_end_date_pairs = <<>>
        /\ futures = <<>>
        /\ result = NoResult
        /\ pc = "done" => raised \in {"InvalidTimeframe", "InvalidType"}

C3_Witness ==
    /\ op = "retrieve_historical_bars" /\ tframe = "2min" /\ type_ = "stock"
    /\ pc = "done" /\ raised = "InvalidTimeframe"
    /\ calls = <<>>

FailedFetches == {i \in 1..Len(futures) : futures[i].exc # ""}

\* The requests made for window i.
RequestsOf(i) ==
    {k \in 1..Len(calls) : calls[k] = url_params(WindowStart(i), WindowEnd(i))}

\* C4: once the fetch of any window has failed the chunked retrieval gives
\* the caller no bar series, and it ends by raising; no window is requested
\* more than once.
C4_FailureLeavesNoPartialResult ==
    Chunked =>
        /\ FailedFetches # {} => result = NoResult
        /\ (FailedFetches # {} /\ pc = "done") => raised # ""
        /\ Len(calls) <= NumWindows
        /\ \A i \in 1..Len(futures) : Cardinality(RequestsOf(i)) <= 1

C4_Witness ==
    /\ Chunked /\ pc = "done" /\ Len(futures) = 2
    /\ futures[1].exc = "" /\ futures[1].value.form = "list"
    /\ futures[1].value.bars # <<>>
    /\ futures[2].exc = "UpstreamFetchError"
    /\ raised = "UpstreamFetchError" /\ result = NoResult

NativeDates == {b.date : b \in UpstreamBars}

\* A column-oriented series: six arrays of one length, the dates as the
\* provider sent them.  A request that found no bar gives the empty list.
ColumnSeries(r) ==
    \/ r = ListResult(<<>>)
    \/ /\ r.form = "columns"
       /\ \A a \in {r.open, r.high, r.low, r.close, r.volume} : Len(a) = Len(r.date)
       /\ \A i \in 1..Len(r.date) : r.date[i] \in NativeDates

\* C5: with format_taLib set, a retrieval whose fetches all succeeded returns
\* a column-oriented series of equally long arrays with the provider's own
\* dates, from the single fetch and from the chunked retrieval alike.
C5_ColumnFormatReturned ==
    ( /\ op \in {"retrieve_historical_bars", "recurssive_call_retrieve_historical_bars"}
      /\ format_taLib /\ pc = "done"
      /\ ~UnsupportedTimeframe /\ type_ \in {"stock", "crypto"}
      /\ FailedFetches = {}
      /\ raised # "UpstreamFetchError" ) =>
        /\ raised = ""
        /\ ColumnSeries(result)

\* The per-window series in the order the windows were submitted.
RECURSIVE SeriesUpTo(_)
SeriesUpTo(n) ==
    IF n = 0 THEN <<>>
    ELSE SeriesUpTo(n - 1) \o
         (IF futures[n].value.form = "list" THEN futures[n].value.bars ELSE <<>>)

AllSeries == SeriesUpTo(Len(futures))

Count(s, b) == Cardinality({i \in 1..Len(s) : s[i] = b})
Elements(s) == {s[i] : i \in 1..Len(s)}

\* The chunked retrieval returned a list of bars.
ReturnedList ==
    /\ Chunked /\ ~format_taLib /\ pc = "done" /\ raised = ""
    /\ result.form = "list"

\* r holds MaxBars bars of u, and no bar of u left out is later than a bar
\* of r.
LastOfUnion(r, u) ==
    /\ Len(r) = MaxBars
    /\ \A b \in Elements(r) : Count(r, b) <= Count(u, b)
    /\ \A b \in Elements(u) : Count(r, b) < Count(u, b) =>
           \A i \in 1..Len(r) : b.datetime <= r[i].datetime

\* C2 as stated: when the per-window series hold more than MaxBars bars, the
\* merged result has exactly MaxBars entries, strictly ascending by
\* timestamp, the last of the union.
C2_StrictlyAscendingLast ==
    (ReturnedList /\ Len(AllSeries) > MaxBars) =>
        /\ LastOfUnion(result.bars, AllSeries)
        /\ \A i \in 1..(Len(result.bars) - 1) :
               result.bars[i].datetime < result.bars[i + 1].datetime

\* C2 as amended: when the per-window series hold more than MaxBars bars, the
\* merged result has exactly MaxBars entries, ascending by timestamp with
\* bars of equal timestamp kept side by side, and they are the last of the
\* union: no bar left out is later than a bar kept.
C2_AscendingLast ==
    (ReturnedList /\ Len(AllSeries) > MaxBars) =>
        /\ LastOfUnion(result.bars, AllSeries)
        /\ \A i \in 1..(Len(result.bars) - 1) :
               result.bars[i].datetime <= result.bars[i + 1].datetime

C2_Witness ==
    /\ ReturnedList /\ Len(futures) = 2
    /\ futures[1].value.bars # <<>> /\ futures[2].value.bars # <<>>
    /\ Len(AllSeries) > MaxBars
    /\ Len(result.bars) = MaxBars
    /\ result.bars[MaxBars - 1].datetime = result.bars[MaxBars].datetime
    /\ result.bars[MaxBars - 1] # result.bars[MaxBars]

Timestamps(s) == [i \in 1..Len(s) |-> s[i].datetime]

\* No bar of one window has the timestamp of a bar of another window.
NoTieAcrossWindows ==
    \A i \in 1..Len(futures), j \in 1..Len(futures) :
        (i # j /\ futures[i].value.form = "list" /\ futures[j].value.form = "list") =>
            \A a \in Elements(futures[i].value.bars), b \in Elements(futures[j].value.bars) :
                a.datetime # b.datetime

\* C10 as stated: the list the chunked retrieval returns is the same under
\* every order of completion, that is, it is the one returned when the
\* fetches complete in the order they were submitted.
C10_SameBarsInEveryOrder ==
    ReturnedList => result.bars = merged(AllSeries)

\* C10 as amended: the timestamps of the returned list, ascending, are the
\* same under every order of completion, and so are the bars when no two
\* windows hold a bar of the same timestamp; bars of equal timestamp from
\* different windows come in the order their fetches completed.
C10_SameTimestampsInEveryOrder ==
    ReturnedList =>
        /\ Timestamps(result.bars) = Timestamps(merged(AllSeries))
        /\ NoTieAcrossWindows => result.bars = merged(AllSeries)

C10_Witness ==
    /\ ReturnedList /\ Len(futures) = 2
    /\ futures[1].value.bars # <<>> /\ futures[2].value.bars # <<>>
    /\ NoTieAcrossWindows
    /\ data # AllSeries
    /\ result.bars = merged(AllSeries)

\* The requested range fits one provider window of the timeframe.
FitsOneWindow ==
    strftime_date(to_date) - strftime_date(start_date) + 1 <= max_days_of(tframe)

\* C8: a handler's request that fits one provider window is served by
\* exactly one direct fetch; a longer one is planned into windows and
\* fetched by the chunked retrieval; no upstream request spans more than
\* max_range_days.
C8_RoutedByRangeSize ==
    ( /\ op \in Handlers /\ pc = "done"
      /\ recur_gate(tframe, type_) = ""
      /\ to_date >= start_date ) =>
        /\ FitsOneWindow =>
               /\ Len(calls) = 1 /\ futures = <<>>
               /\ raised \in {"", "UpstreamFetchError"}
        /\ ~FitsOneWindow => (start_end_date_pairs # <<>> /\ futures # <<>>)
        /\ \A k \in 1..Len(calls) :
               calls[k].to - calls[k].from + 1 <= max_days_of(tframe)

\* The chunked retrieval has submitted its fetches.
Submitted == Planned /\ pc \in {"collect", "raising", "done"}

\* C11: the chunked retrieval submits exactly one fetch per planned window,
\* and when it returns or raises every submitted fetch has run to its end,
\* each with its one request made: none is pending, under way or dropped,
\* those whose results are discarded after a sibling's failure included.
C11_EveryFetchCompletes ==
    /\ Submitted => Len(futures) = NumWindows
    /\ (Planned /\ pc = "done") =>
           /\ \A i \in 1..Len(futures) : futures[i].state = "done"
           /\ \A i \in 1..Len(futures) : Cardinality(RequestsOf(i)) = 1
           /\ Len(calls) = NumWindows

C11_Witness ==
    /\ Planned /\ pc = "done" /\ Len(futures) = 2
    /\ raised = "UpstreamFetchError"
    /\ futures[1].exc = "UpstreamFetchError" /\ futures[1].collected
    /\ futures[2].state = "done" /\ ~futures[2].collected
    /\ futures[2].exc = "" /\ futures[2].value.form = "list"
    /\ futures[2].value.bars # <<>>

\* The expected points one window adds (numerator over points_den): the
\* market-hours count for stock, the continuous count for crypto.
PointsPerWindow ==
    IF type_ = "stock"
    THEN interval_to_max_days[tframe].num_points_market_hours_only
    ELSE interval_to_max_days[tframe].num_points

\* ceil(20000 / density)
MaxWindowsByCap ==
    (PointCap * points_den(tframe) + PointsPerWindow - 1) \div PointsPerWindow

PlanningOver == pc \notin {"recur", "plan"}

\* C12, the counts: the running total is the windows emitted times the
\* density of the asset type; a window is emitted only while the total is
\* below 20000, so there are at most ceil(20000 / density) of them, 18 for
\* 1min stock and 5 for 1min crypto, also when the start is not reached; the
\* loop is left only past the start or at the cap, and with at least one
\* window when end >= start.
C12_WindowsWithinCap ==
    (Chunked /\ recur_gate(tframe, type_) = "") =>
        /\ total_points = NumWindows * PointsPerWindow
        /\ NumWindows > 0 =>
               (NumWindows - 1) * PointsPerWindow < PointCap * points_den(tframe)
        /\ NumWindows <= MaxWindowsByCap
        /\ (tframe = "1min" /\ type_ = "stock") => NumWindows <= 18
        /\ (tframe = "1min" /\ type_ = "crypto") => NumWindows <= 5
        /\ PlanningOver =>
               /\ end_date < start_date \/ NumWindows = MaxWindowsByCap
               /\ to_date >= start_date => NumWindows >= 1

\* C12: the planning loop always ends, emits at least one window when
\* end >= start, and stops once the expected points reach 20000, so that
\* the windows never outnumber ceil(20000 / density), even short of the
\* requested start.
C12_PlanningEndsWithinCap == []C12_WindowsWithinCap /\ <>PlanningOver

C12_Witness ==
    /\ Planned /\ tframe = "1min" /\ type_ = "stock"
    /\ NumWindows = 18
    /\ end_date >= start_date

\* What the gate of the other retrieval operation says of the request.
OtherGate ==
    IF Chunked THEN rhb_gate(tframe, type_) ELSE recur_gate(tframe, type_)

\* C13: the two validity gates accept the same timeframe names: a call of
\* either retrieval operation ends with the invalid-timeframe error exactly
\* when the gate of the other operation rejects the timeframe too.
C13_GatesAgreeOnTimeframes ==
    ( /\ op \in {"retrieve_historical_bars", "recurssive_call_retrieve_historical_bars"}
      /\ pc = "done" ) =>
        ((raised = "InvalidTimeframe") <=> (OtherGate = "InvalidTimeframe"))

====
